---- MODULE Spec2Model ----
(***************************************************************************)
(* Outbound email scheduling and throttling engine.                        *)
(*                                                                         *)
(* process_email_queue() is a PL/pgSQL function: every invocation (a       *)
(* dispatch cycle) is one PostgreSQL transaction at the default isolation  *)
(* level READ COMMITTED.  The model keeps the committed tables             *)
(* (email_queue, inbox_daily_send_counts, inboxes) and, per cycle, the     *)
(* rows the cycle has written but not committed yet (wq, wc).  A row       *)
(* written by an open transaction is locked: another cycle's UPDATE or     *)
(* upsert of that row waits for the commit and then acts on the committed  *)
(* version.  Every statement reads the committed tables plus the cycle's   *)
(* own writes.  NOW() and CURRENT_DATE are those of the transaction start. *)
(* Time is counted in seconds.                                             *)
(***************************************************************************)
EXTENDS Integers, Sequences, FiniteSets, TLC

VARIABLES
    now,                     \* wall clock
    inboxes,                 \* table inboxes (committed)
    email_queue,             \* table email_queue (committed rows)
    inbox_daily_send_counts, \* table inbox_daily_send_counts (committed rows)
    pc,                      \* per cycle: the statement it is about to run
    txn_now,                 \* per cycle: NOW() of its transaction
    batch,                   \* per cycle: rows the FOR query returned, in order
    idx,                     \* per cycle: position of email_to_send in batch
    inbox_record,            \* per cycle: SELECT * INTO inbox_record
    current_send_count,      \* per cycle: local variable
    response_body,           \* per cycle: local variable of the inner block
    error_message,           \* per cycle: local variable of the inner block
    wq,                      \* per cycle: uncommitted email_queue rows
    wc,                      \* per cycle: uncommitted counter rows
    results,                 \* per cycle: rows emitted by RETURN NEXT
    posted,                  \* history: http_post calls made for each job
    last_response,           \* history: outcome of the latest http_post per job
    contacts,                \* table contacts (committed)
    contact_record,          \* per cycle: SELECT * INTO contact_record
    campaigns,               \* table campaigns (committed)
    email_steps,             \* table email_steps (committed)
    campaign_contacts,       \* table campaign_contacts (committed)
    email_queue_id_seq,      \* sequence behind email_queue.id (never rolled back)
    sc_pc,                   \* start_campaign: the statement it is about to run
    campaign_id_to_start,    \* start_campaign: its argument
    first_step,              \* start_campaign: local variable
    contact_cursor,          \* start_campaign: rows the FOR query has yet to yield
    current_send_time,       \* start_campaign: local variable
    sc_now,                  \* start_campaign: NOW() of its transaction
    wi,                      \* start_campaign: uncommitted email_queue rows
    sc_result,               \* what the latest start_campaign call returned
    calls,                   \* number of start_campaign calls made
    w_pc,                    \* send-email-worker: where the serve handler is
    w_req,                   \* send-email-worker: the JSON body of the request
    w_inbox,                 \* send-email-worker: the row fetched from inboxes
    access_token,            \* send-email-worker: local variable
    expires_at,              \* send-email-worker: local variable
    checked_at,              \* send-email-worker: new Date() of the expiry check
    issued,                  \* history: access tokens issued by the token endpoint
    gmail,                   \* history: calls of sendEmailWithGmail
    response,                \* send-email-worker: the Response it returned
    rb_pc,                   \* retryWithBackoff: where the call is
    maxRetries,              \* retryWithBackoff: option
    onRetry,                 \* retryWithBackoff: whether the option is given
    attempt,                 \* retryWithBackoff: loop variable
    lastError,               \* retryWithBackoff: local variable
    rb_delay,                \* retryWithBackoff: local variable of the catch block
    fn_calls,                \* history: how each call of fn ended
    onRetry_calls,           \* history: the arguments of each call of onRetry
    outcome                  \* retryWithBackoff: what the call returned or threw

vars == <<now, inboxes, email_queue, inbox_daily_send_counts, pc, txn_now,
          batch, idx, inbox_record, current_send_count, response_body,
          error_message, wq, wc, results, posted, last_response, contacts,
          contact_record, campaigns, email_steps, campaign_contacts,
          email_queue_id_seq, sc_pc, campaign_id_to_start, first_step,
          contact_cursor, current_send_time, sc_now, wi, sc_result, calls,
          w_pc, w_req, w_inbox, access_token, expires_at, checked_at, issued,
          gmail, response, rb_pc, maxRetries, onRetry, attempt, lastError,
          rb_delay, fn_calls, onRetry_calls, outcome>>

\* The variables of the send-email-worker.
workerVars == <<w_pc, w_req, w_inbox, access_token, expires_at, checked_at,
                issued, gmail, response>>

\* The variables of retryWithBackoff.
retryVars == <<rb_pc, maxRetries, onRetry, attempt, lastError, rb_delay,
               fn_calls, onRetry_calls, outcome>>

\* The tables and variables that only start_campaign works on.
campVars == <<campaigns, email_steps, campaign_contacts, email_queue_id_seq,
              sc_pc, campaign_id_to_start, first_step, contact_cursor,
              current_send_time, sc_now, wi, sc_result, calls>>

-----------------------------------------------------------------------------
(* Program constants *)

daily_limit_per_inbox == 40
batch_size == 10
OneDay == 86400
DefaultDailySendLimit == 40

(* Bounds of the model *)

NCycles == 2
NJobs == 2
TickStep == 43200
MaxTicks == 1
E2EJobs == 45
MaxContacts == 2
MaxSteps == 2
MaxCalls == 2
RandDen == 1000
BatchJobs == 12
MaxPosts == 2
MaxFailAt == 2
MaxSends == 2
MaxIssued == 2
MaxRetriesBound == 3

Cycles == 1..NCycles
NoInbox == 0
Inboxes == {1, 2}
NULL == "NULL"
Now0 == OneDay + TickStep
MaxNow == Now0 + MaxTicks * TickStep
PreSent == daily_limit_per_inbox - 1

Date(t) == t \div OneDay

EmptyRows == [x \in {} |-> NULL]

Range(s) == {s[i] : i \in DOMAIN s}

-----------------------------------------------------------------------------
(* Tables *)

\* One row of email_queue.
QueueRow(inbox, contact, at, st, upd) ==
    [user_id |-> "u1", campaign_id |-> 1, contact_id |-> contact,
     inbox_id |-> inbox, sequence_id |-> 1, email_step_id |-> 1,
     subject |-> "Hello", body |-> "Body",
     send_at |-> at, status |-> st, error_message |-> NULL,
     updated_at |-> upd]

\* The inboxes table: inbox 1 keeps the column default of daily_send_limit
\* and holds a token that is still valid; inbox 2 is limited to one mail a
\* day and holds a token that expired with no refresh token stored.
InboxTable ==
    [i \in Inboxes |->
        IF i = 1
        THEN [user_id |-> "u1",
              email |-> "inbox1@example.com", access_token |-> "tok1",
              refresh_token |-> "ref1", expires_at |-> MaxNow + OneDay,
              daily_send_limit |-> DefaultDailySendLimit]
        ELSE [user_id |-> "u1",
              email |-> "inbox2@example.com", access_token |-> "tok2",
              refresh_token |-> NULL, expires_at |-> 0,
              daily_send_limit |-> 1]]

\* contacts.email is NOT NULL UNIQUE.
ContactEmail(contact) == "contact" \o ToString(contact) \o "@example.com"

\* One row of contacts; first_name and company_name may be NULL.
ContactRow(contact, first, company) ==
    [id |-> contact, first_name |-> first, company_name |-> company,
     email |-> ContactEmail(contact)]

\* A record variable after SELECT ... INTO found no row: every field is NULL.
NullInbox ==
    [user_id |-> NULL, email |-> NULL, access_token |-> NULL,
     refresh_token |-> NULL, expires_at |-> 0, daily_send_limit |-> 0]

NullContact ==
    [id |-> 0, first_name |-> NULL, company_name |-> NULL, email |-> NULL]

\* response_body JSONB before it is assigned.
NullBody == [null |-> TRUE]

-----------------------------------------------------------------------------
(* send-email-worker: the edge function behind edge_function_url *)

\* JavaScript !v for the values a request field can carry.
Falsy(v) == v \in {"", NULL}

\* The destructured request field is undefined when the body has no such key.
MissingField(req, f) == IF f \in DOMAIN req THEN Falsy(req[f]) ELSE TRUE

\* What the outside world does during one call of the worker.
WorkerEnv == [fetch_ok : BOOLEAN, refresh_ok : BOOLEAN, gmail_ok : BOOLEAN]

\* The HTTP response of the serve handler to a POST with JSON body req at
\* time t.  inbox_id is the only non-text field; it is looked up in inboxes.
WorkerResponse(req, t, env) ==
    IF \/ "inbox_id" \notin DOMAIN req
       \/ MissingField(req, "contact_email")
       \/ MissingField(req, "subject")
       \/ MissingField(req, "body")
    THEN [status |-> 400, content |-> [error |-> "Missing required fields"]]
    ELSE IF req.inbox_id \notin DOMAIN inboxes \/ ~env.fetch_ok
    THEN [status |-> 500, content |-> [error |-> "Could not find inbox"]]
    ELSE LET inbox == inboxes[req.inbox_id]
             expired == t > inbox.expires_at
         IN  IF expired /\ Falsy(inbox.refresh_token)
             THEN [status |-> 500, content |->
                    [error |-> "Access token expired and no refresh token is available."]]
             ELSE IF expired /\ ~env.refresh_ok
             THEN [status |-> 500, content |->
                    [error |-> "Failed to refresh access token."]]
             ELSE IF ~env.gmail_ok
             THEN [status |-> 500, content |-> [error |-> "Gmail API error"]]
             ELSE [status |-> 200, content |->
                    [message |-> "Email sent successfully"]]

\* The worker has received no request, or returned no response, yet.
NoRequest == [inbox_id |-> NoInbox]
NoResponse == [status |-> 0, content |-> NullBody]

\* JavaScript undefined.
undefined == "undefined"

\* No call of retryWithBackoff has ended yet.
NoOutcome == [kind |-> "none", value |-> undefined]

-----------------------------------------------------------------------------
(* process_email_queue: helpers *)

\* A row as the FOR query returned it.
Selected(j) == [id |-> j, row |-> email_queue[j]]

\* email_to_send: the row of the FOR loop the cycle is at, and its id.
EmailToSend(c) == batch[c][idx[c]].row
Job(c) == batch[c][idx[c]].id

\* The ids of the rows in the batch of cycle c.
BatchIds(c) == {batch[c][i].id : i \in DOMAIN batch[c]}

\* The version of a queue row a statement of cycle c works on.
CurRow(c, j) == IF j \in DOMAIN wq[c] THEN wq[c][j] ELSE email_queue[j]

\* WHERE id = j matches a row.
RowExists(c, j) == j \in DOMAIN wq[c] \/ j \in DOMAIN email_queue

\* A row written by another open transaction is locked against c.
RowLocked(c, j) == \E d \in Cycles \ {c} : j \in DOMAIN wq[d]

\* The same for a row of inbox_daily_send_counts: the upsert of a row that
\* another open transaction has written waits for that transaction.
CounterLocked(c, key) == \E d \in Cycles \ {c} : key \in DOMAIN wc[d]

\* Function f with the row at k written.
Put(f, k, row) == [x \in DOMAIN f \cup {k} |-> IF x = k THEN row ELSE f[x]]

\* Committed table tab with the writes w of a transaction applied.
Applied(tab, w) ==
    [x \in DOMAIN tab \cup DOMAIN w |-> IF x \in DOMAIN w THEN w[x] ELSE tab[x]]

\* The filter without its condition on send_at.
Due_AnyTime(t) == {j \in DOMAIN email_queue : email_queue[j].status = "queued"}

\* WHERE status = 'queued' AND send_at <= NOW()
Due(t) == {j \in DOMAIN email_queue :
              email_queue[j].status = "queued" /\ email_queue[j].send_at <= t}

\* ORDER BY send_at ASC LIMIT n: every order the query may return (rows with
\* equal send_at come in any order).
RECURSIVE Batches(_, _)
Batches(S, n) ==
    IF n = 0 \/ S = {} THEN {<< >>}
    ELSE LET first == {j \in S : \A k \in S :
                          email_queue[j].send_at <= email_queue[k].send_at}
         IN  UNION {{<<j>> \o rest : rest \in Batches(S \ {j}, n - 1)} :
                    j \in first}

\* The FOR query without its LIMIT.
ForQuery_NoLimit(t) == Batches(Due(t), Cardinality(Due(t)))

\* FOR email_to_send IN SELECT * FROM email_queue WHERE ... ORDER BY send_at
\* ASC LIMIT batch_size
ForQuery(t) == Batches(Due(t), batch_size)

\* The read that does not see what the cycle itself has written.
ReadSendCount_Committed(c, key) ==
    IF key \in DOMAIN inbox_daily_send_counts
    THEN inbox_daily_send_counts[key]
    ELSE 0

\* SELECT send_count INTO current_send_count ...; IF ... IS NULL THEN 0.
ReadSendCount(c, key) ==
    IF key \in DOMAIN wc[c] THEN wc[c][key]
    ELSE IF key \in DOMAIN inbox_daily_send_counts
         THEN inbox_daily_send_counts[key]
         ELSE 0

\* The quota test with > in place of >=.
QuotaReached_Strict(count) == count > daily_limit_per_inbox

\* IF current_send_count >= daily_limit_per_inbox
QuotaReached(count) == count >= daily_limit_per_inbox

\* The increment done as read-then-write: the count read at the quota check
\* plus one.
UpsertCount_ReadThenWrite(c, key) == current_send_count[c] + 1

\* The upsert that overwrites the count on conflict instead of adding to it.
UpsertCount_Overwrite(c, key) == 1

\* VALUES (..., 1) ON CONFLICT (inbox_id, send_date) DO UPDATE
\* SET send_count = inbox_daily_send_counts.send_count + 1
UpsertCount(c, key) ==
    IF key \in DOMAIN wc[c] \/ key \in DOMAIN inbox_daily_send_counts
    THEN ReadSendCount(c, key) + 1
    ELSE 1

\* The JSON body of the http_post request.
RequestBody(c) ==
    [inbox_email   |-> inbox_record[c].email,
     access_token  |-> inbox_record[c].access_token,
     contact_email |-> contact_record[c].email,
     subject       |-> EmailToSend(c).subject,
     body          |-> EmailToSend(c).body]

\* The key the function authorizes its requests with.
service_role_key == "eyJhbGciOiJIUzI1NiIsInR5cCI6IkpXVCJ9"

\* The headers of the http_post request.
RequestHeaders(key) ==
    [content_type |-> "application/json", authorization |-> "Bearer " \o key]

\* The message that quotes the access token of the request.
PostError_WithToken(headers, body) == "could not connect: " \o body.access_token

\* MESSAGE_TEXT of the exception raised when the request is not answered.
PostError(headers, body) == "could not connect"

\* MESSAGE_TEXT of the exception raised when the upsert fails.
UpsertError == "deadlock detected"

\* The reschedule that counts the day from the time of the cycle.
RescheduledRow_FromNow(row, t) ==
    [row EXCEPT !.status = "rescheduled", !.send_at = t + OneDay,
                !.updated_at = t]

\* The reschedule that leaves the job queued.
RescheduledRow_Queued(row, t) ==
    [row EXCEPT !.send_at = row.send_at + OneDay, !.updated_at = t]

\* SET status = 'rescheduled', send_at = send_at + INTERVAL '1 day',
\* updated_at = NOW()
RescheduledRow(row, t) ==
    [row EXCEPT !.status = "rescheduled", !.send_at = row.send_at + OneDay,
                !.updated_at = t]

\* The handler that leaves the row as it is.
FailedRow_Ignored(row, msg, t) == row

\* SET status = 'failed', error_message = 'Edge function error: ' ||
\* error_message, updated_at = NOW()
FailedRow(row, msg, t) ==
    [row EXCEPT !.status = "failed",
                !.error_message = "Edge function error: " \o msg,
                !.updated_at = t]

\* The savepoint that does not undo the UPDATE of the block.
SavepointRow_Kept(row) == row

\* The row as it was when the inner block was entered: the UPDATE to 'sent'
\* is undone when the block ends with an exception.
SavepointRow(row) == [row EXCEPT !.status = "sending"]

\* The returned row that says sent whatever was done.
Result_AlwaysSent(j, st, msg) == [queue_id |-> j, status |-> "sent", message |-> msg]

\* A row of the returned table.
Result(j, st, msg) == [queue_id |-> j, status |-> st, message |-> msg]

\* END LOOP: on to the next row of the batch, or to the end of the function.
NextPc(c) == IF idx[c] < Len(batch[c]) THEN "check" ELSE "commit"

-----------------------------------------------------------------------------
(* start_campaign: tables and helpers *)

\* A nullable TEXT value that tags are looked for in: NULL, or the pieces
\* the text is made of (a merge tag is one piece).
Text(toks) == [isnull |-> FALSE, toks |-> toks]
NullText == [isnull |-> TRUE, toks |-> << >>]

\* REPLACE(t, from, to): every occurrence of from becomes to; the function
\* is strict, so the result is NULL when an argument is NULL.
Replace(t, from, to) ==
    IF t.isnull \/ to = NULL THEN NullText
    ELSE Text([i \in DOMAIN t.toks |->
                 IF t.toks[i] = from THEN to ELSE t.toks[i]])

\* t || s, NULL when t is NULL.
Concat(t, s) == IF t.isnull THEN NullText ELSE Text(Append(t.toks, s))

\* The TEXT value as it is stored in a column.
RECURSIVE Joined(_)
Joined(toks) == IF toks = << >> THEN "" ELSE Head(toks) \o Joined(Tail(toks))

Stored(t) == IF t.isnull THEN NULL ELSE Joined(t.toks)

\* The CAN-SPAM footer appended to every body.
Footer ==
    "\\n\\n---\\nOur Company Inc.\\n123 Street, City, State 12345\\n<a href=\"{{unsubscribe_link}}\">Unsubscribe</a>"

\* No row: the value of an id column that is NULL (ids start at 1).
NoRow == 0

\* The row of email_steps with step_number n of sequence 1.
StepId(n) == 20 - n

StepRow(n) ==
    [id |-> StepId(n), sequence_id |-> 1, step_number |-> n,
     subject |-> Text(<<"Step ", ToString(n), " for ", "{{firstName}}">>),
     body |-> Text(<<"Dear ", "{{firstName}}", " of ", "{{companyName}}",
                     " in ", "{{city}}">>)]

\* first_step after SELECT ... INTO found no row: every field is NULL.
NullStep ==
    [id |-> NoRow, sequence_id |-> NoRow, step_number |-> NoRow,
     subject |-> NullText, body |-> NullText]

\* The check that never raises.
NoFirstStep_Never(step) == FALSE

\* IF first_step IS NULL: true of a record when all its fields are NULL.
NoFirstStep(step) ==
    /\ step.id = NoRow
    /\ step.sequence_id = NoRow
    /\ step.step_number = NoRow
    /\ step.subject.isnull
    /\ step.body.isnull

\* SELECT es.* FROM campaigns c JOIN sequences s JOIN email_steps es
\* WHERE c.id = cid ORDER BY es.step_number ASC LIMIT 1
FirstStep(cid) ==
    IF cid \notin DOMAIN campaigns THEN NullStep
    ELSE LET steps == {e \in DOMAIN email_steps :
                          email_steps[e].sequence_id = campaigns[cid].sequence_id}
         IN  IF steps = {} THEN NullStep
             ELSE email_steps[CHOOSE e \in steps : \A f \in steps :
                     email_steps[e].step_number <= email_steps[f].step_number]

\* SELECT ct.* FROM contacts ct JOIN campaign_contacts cc ON ct.id =
\* cc.contact_id WHERE cc.campaign_id = cid
EnrolledContacts(cid) ==
    {k \in DOMAIN contacts : <<cid, k>> \in campaign_contacts}

\* (SELECT user_id FROM campaigns WHERE id = cid)
OwnerOf(cid) == IF cid \in DOMAIN campaigns THEN campaigns[cid].user_id ELSE NULL

\* (SELECT id FROM inboxes WHERE user_id = u LIMIT 1): the rows the
\* subquery may return, NULL when there is none.
InboxOf(u) ==
    LET mine == {i \in DOMAIN inboxes : inboxes[i].user_id = u}
    IN  IF mine = {} THEN {NoRow} ELSE mine

\* random(): the values r / RandDen it is sampled at, 0 <= random() < 1.
RandSamples == {0, RandDen - 1}

\* floor(random() * (300 - 90 + 1) + 90) for random() = r / RandDen
MinDelay == 90
MaxDelay == 300
RandomDelay(r) == (r * (MaxDelay - MinDelay + 1)) \div RandDen + MinDelay

\* The send time that is not carried over from one contact to the next.
NextSendTime_FromStart(current, start, delay) == start + delay

\* current_send_time := current_send_time + random_delay_seconds seconds
NextSendTime(current, start, delay) == current + delay

\* The NOT NULL columns of email_queue.
ViolatesNotNull(row) ==
    \/ row.user_id = NULL
    \/ row.contact_id = NoRow
    \/ row.inbox_id = NoRow
    \/ row.sequence_id = NoRow
    \/ row.email_step_id = NoRow
    \/ row.subject = NULL
    \/ row.body = NULL

\* The failed statement that would leave the rows of the call in the table.
RolledBack_Kept(tab, w) == Applied(tab, w)

\* An exception that no block catches ends the function: all that the call
\* has written is rolled back.
RolledBack(tab, w) == tab

\* The row the INSERT of the loop builds for contact ct.
NewJob(cid, ct, inbox, at) ==
    LET subject == Replace(Replace(first_step.subject,
                                   "{{firstName}}", contacts[ct].first_name),
                           "{{companyName}}", contacts[ct].company_name)
        body == Concat(Replace(Replace(first_step.body,
                                       "{{firstName}}", contacts[ct].first_name),
                               "{{companyName}}", contacts[ct].company_name),
                       Footer)
    IN  [user_id |-> OwnerOf(cid), campaign_id |-> cid, contact_id |-> ct,
         inbox_id |-> inbox, sequence_id |-> first_step.sequence_id,
         email_step_id |-> first_step.id,
         subject |-> Stored(subject), body |-> Stored(body),
         send_at |-> at, status |-> "queued", error_message |-> NULL,
         updated_at |-> sc_now]

\* No call of start_campaign is running.
StartCampaignIdle ==
    /\ sc_pc = "idle"
    /\ campaign_id_to_start = NoRow
    /\ first_step = NullStep
    /\ contact_cursor = {}
    /\ current_send_time = 0
    /\ sc_now = 0
    /\ wi = EmptyRows
    /\ sc_result = NULL
    /\ calls = 0

\* The worker is not handling a request.
WorkerIdle ==
    /\ w_pc = "idle"
    /\ w_req = NoRequest
    /\ w_inbox = NullInbox
    /\ access_token = NULL
    /\ expires_at = 0
    /\ checked_at = 0
    /\ issued = 0
    /\ gmail = << >>
    /\ response = NoResponse

\* No call of retryWithBackoff has been made.
RetryIdle ==
    /\ rb_pc = "idle"
    /\ maxRetries = 0
    /\ onRetry = FALSE
    /\ attempt = 0
    /\ lastError = undefined
    /\ rb_delay = 0
    /\ fn_calls = << >>
    /\ onRetry_calls = << >>
    /\ outcome = NoOutcome

\* The campaign the queued jobs belong to: it has been started.
CampaignActive ==
    /\ campaigns = [c \in {1} |->
                      [user_id |-> "u1", sequence_id |-> 1, status |-> "active"]]
    /\ email_steps = [e \in {StepId(1)} |-> StepRow(1)]
    /\ campaign_contacts = {<<1, k>> : k \in DOMAIN contacts}

-----------------------------------------------------------------------------
(* Initial states *)

\* The cycles are idle and hold nothing.
CyclesIdle ==
    /\ pc = [c \in Cycles |-> "idle"]
    /\ txn_now = [c \in Cycles |-> 0]
    /\ batch = [c \in Cycles |-> << >>]
    /\ idx = [c \in Cycles |-> 1]
    /\ inbox_record = [c \in Cycles |-> NullInbox]
    /\ contact_record = [c \in Cycles |-> NullContact]
    /\ current_send_count = [c \in Cycles |-> 0]
    /\ response_body = [c \in Cycles |-> NullBody]
    /\ error_message = [c \in Cycles |-> NULL]
    /\ wq = [c \in Cycles |-> EmptyRows]
    /\ wc = [c \in Cycles |-> EmptyRows]
    /\ results = [c \in Cycles |-> << >>]

\* send_at of the k-th job that is still queued: due since yesterday, due
\* since a moment ago, or not due before tomorrow.
SendAtChoices(k) ==
    {TickStep + k, Now0 - (NJobs + 1) + k, Now0 + TickStep + k}

\* It is midday of day 1.  Inbox 1 has sent p mails today in earlier cycles
\* (p = 0, or one less than the limit of the function); NJobs jobs are queued.
Init ==
    /\ now = Now0
    /\ inboxes = InboxTable
    /\ \E p \in {0, PreSent} :
       \E ib \in [1..NJobs -> Inboxes] :
       \E at \in {f \in [1..NJobs -> UNION {SendAtChoices(k) : k \in 1..NJobs}] :
                     \A k \in 1..NJobs : f[k] \in SendAtChoices(k)} :
          /\ email_queue =
               [j \in 1..(p + NJobs) |->
                  IF j <= p
                  THEN QueueRow(1, j, OneDay + j, "sent",
                                OneDay + 60 * ((j - 1) \div batch_size + 1))
                  ELSE QueueRow(ib[j - p], j, at[j - p], "queued", 0)]
          /\ inbox_daily_send_counts =
               [key \in (IF p = 0 THEN {} ELSE {<<1, Date(Now0)>>}) |-> p]
          /\ posted = [j \in 1..(p + NJobs) |-> IF j <= p THEN 1 ELSE 0]
          /\ last_response = [j \in 1..(p + NJobs) |-> IF j <= p THEN 400 ELSE 0]
          /\ contacts = [k \in 1..(p + NJobs) |-> ContactRow(k, "Ann", "Acme")]
          /\ email_queue_id_seq = p + NJobs
    /\ CyclesIdle
    /\ CampaignActive
    /\ StartCampaignIdle
    /\ WorkerIdle
    /\ RetryIdle

\* The end-to-end scenario: E2EJobs jobs of inbox 1, all due, nothing sent yet.
InitE2E ==
    /\ now = Now0
    /\ inboxes = InboxTable
    /\ email_queue = [j \in 1..E2EJobs |-> QueueRow(1, j, OneDay + j, "queued", 0)]
    /\ inbox_daily_send_counts = EmptyRows
    /\ posted = [j \in 1..E2EJobs |-> 0]
    /\ last_response = [j \in 1..E2EJobs |-> 0]
    /\ contacts = [k \in 1..E2EJobs |-> ContactRow(k, "Ann", "Acme")]
    /\ email_queue_id_seq = E2EJobs
    /\ CyclesIdle
    /\ CampaignActive
    /\ StartCampaignIdle
    /\ WorkerIdle
    /\ RetryIdle

-----------------------------------------------------------------------------
(* process_email_queue: one action per statement that reads or writes the  *)
(* tables or calls out                                                     *)

\* The cron job (or any other caller) starts the function: the transaction
\* begins and the FOR query is evaluated.
Begin(c) ==
    /\ pc[c] = "idle"
    /\ txn_now' = [txn_now EXCEPT ![c] = now]
    /\ \E b \in ForQuery(now) :
          /\ batch' = [batch EXCEPT ![c] = [i \in DOMAIN b |-> Selected(b[i])]]
          /\ pc' = [pc EXCEPT ![c] = IF b = << >> THEN "commit" ELSE "check"]
    /\ idx' = [idx EXCEPT ![c] = 1]
    /\ results' = [results EXCEPT ![c] = << >>]
    /\ UNCHANGED <<workerVars, retryVars,
                   campVars, contacts, now, inboxes, email_queue,
                   inbox_daily_send_counts,
                   inbox_record, contact_record, current_send_count,
                   response_body, error_message, wq, wc, posted, last_response>>

\* Steps 1 and 2: the lookups and the read of today's counter.
Check(c) ==
    /\ pc[c] = "check"
    /\ LET inbox == EmailToSend(c).inbox_id
           contact == EmailToSend(c).contact_id
           count == ReadSendCount(c, <<inbox, Date(txn_now[c])>>)
       IN  /\ inbox_record' = [inbox_record EXCEPT ![c] =
                                  IF inbox \in DOMAIN inboxes
                                  THEN inboxes[inbox] ELSE NullInbox]
           /\ contact_record' = [contact_record EXCEPT ![c] =
                                    IF contact \in DOMAIN contacts
                                    THEN contacts[contact] ELSE NullContact]
           /\ current_send_count' = [current_send_count EXCEPT ![c] = count]
           /\ pc' = [pc EXCEPT ![c] = IF QuotaReached(count)
                                      THEN "reschedule" ELSE "claim"]
    /\ UNCHANGED <<workerVars, retryVars,
                   campVars, contacts, now, inboxes, email_queue,
                   inbox_daily_send_counts, txn_now,
                   batch, idx, response_body, error_message, wq, wc, results,
                   posted, last_response>>

\* UPDATE email_queue SET status = 'rescheduled', send_at = send_at + 1 day
\* WHERE id = email_to_send.id; RETURN NEXT; CONTINUE.
Reschedule(c) ==
    /\ pc[c] = "reschedule"
    /\ ~RowLocked(c, Job(c))
    /\ LET j == Job(c)
       IN  /\ wq' = IF RowExists(c, j)
                    THEN [wq EXCEPT ![c] = Put(@, j,
                            RescheduledRow(CurRow(c, j), txn_now[c]))]
                    ELSE wq
           /\ results' = [results EXCEPT ![c] =
                            Append(@, Result(j, "rescheduled", "Daily limit reached"))]
    /\ pc' = [pc EXCEPT ![c] = NextPc(c)]
    /\ idx' = [idx EXCEPT ![c] = @ + 1]
    /\ UNCHANGED <<workerVars, retryVars,
                   campVars, contacts, now, inboxes, email_queue,
                   inbox_daily_send_counts, txn_now,
                   batch, inbox_record, contact_record, current_send_count,
                   response_body, error_message, wc, posted, last_response>>

\* Step 3: UPDATE email_queue SET status = 'sending' WHERE id = ...  The
\* row is matched by its id alone and the number of rows matched is not
\* looked at.
Claim(c) ==
    /\ pc[c] = "claim"
    /\ ~RowLocked(c, Job(c))
    /\ LET j == Job(c)
       IN  wq' = IF RowExists(c, j)
                 THEN [wq EXCEPT ![c] = Put(@, j,
                         [CurRow(c, j) EXCEPT !.status = "sending",
                                              !.updated_at = txn_now[c]])]
                 ELSE wq
    /\ pc' = [pc EXCEPT ![c] = "post"]
    /\ UNCHANGED <<workerVars, retryVars,
                   campVars, contacts, now, inboxes, email_queue,
                   inbox_daily_send_counts, txn_now,
                   batch, idx, inbox_record, contact_record, current_send_count,
                   response_body, error_message, wc, results, posted,
                   last_response>>

\* Steps 4 and 5, the request is answered: http_post returns the content of
\* the worker's response, whatever its status, and the job is marked sent.
PostReturn(c) ==
    /\ pc[c] = "post"
    /\ \E env \in WorkerEnv :
         LET j == Job(c)
             resp == WorkerResponse(RequestBody(c), now, env)
         IN  /\ response_body' = [response_body EXCEPT ![c] = resp.content]
             /\ posted' = [posted EXCEPT ![j] = @ + 1]
             /\ last_response' = [last_response EXCEPT ![j] = resp.status]
             /\ wq' = IF RowExists(c, j)
                      THEN [wq EXCEPT ![c] = Put(@, j,
                              [CurRow(c, j) EXCEPT !.status = "sent",
                                                   !.updated_at = txn_now[c]])]
                      ELSE wq
    /\ pc' = [pc EXCEPT ![c] = "upsert"]
    /\ UNCHANGED <<workerVars, retryVars,
                   campVars, contacts, now, inboxes, email_queue,
                   inbox_daily_send_counts, txn_now,
                   batch, idx, inbox_record, contact_record, current_send_count,
                   error_message, wc, results>>

\* Step 4, the request is not answered (the call raises): control goes to
\* the EXCEPTION handler with MESSAGE_TEXT.
PostRaise(c) ==
    /\ pc[c] = "post"
    /\ error_message' = [error_message EXCEPT ![c] =
                            PostError(RequestHeaders(service_role_key),
                                      RequestBody(c))]
    /\ posted' = [posted EXCEPT ![Job(c)] = @ + 1]
    /\ last_response' = [last_response EXCEPT ![Job(c)] = 0]
    /\ pc' = [pc EXCEPT ![c] = "handler"]
    /\ UNCHANGED <<workerVars, retryVars,
                   campVars, contacts, now, inboxes, email_queue,
                   inbox_daily_send_counts, txn_now,
                   batch, idx, inbox_record, contact_record, current_send_count,
                   response_body, wq, wc, results>>

\* Step 6: INSERT INTO inbox_daily_send_counts ... ON CONFLICT DO UPDATE SET
\* send_count = send_count + 1; RETURN NEXT.
Upsert(c) ==
    /\ pc[c] = "upsert"
    /\ LET j == Job(c)
           key == <<EmailToSend(c).inbox_id, Date(txn_now[c])>>
       IN  /\ ~CounterLocked(c, key)
           /\ wc' = [wc EXCEPT ![c] = Put(@, key, UpsertCount(c, key))]
           /\ results' = [results EXCEPT ![c] =
                            Append(@, Result(j, "sent", "Email sent successfully"))]
    /\ pc' = [pc EXCEPT ![c] = NextPc(c)]
    /\ idx' = [idx EXCEPT ![c] = @ + 1]
    /\ UNCHANGED <<workerVars, retryVars,
                   campVars, contacts, now, inboxes, email_queue,
                   inbox_daily_send_counts, txn_now,
                   batch, inbox_record, contact_record, current_send_count,
                   response_body, error_message, wq, posted, last_response>>

\* EXCEPTION WHEN OTHERS: the writes of the inner block are undone (the row
\* is back at 'sending'), the job is marked failed; RETURN NEXT.
Handler(c) ==
    /\ pc[c] = "handler"
    /\ LET j == Job(c)
       IN  /\ wq' = IF RowExists(c, j)
                    THEN [wq EXCEPT ![c] = Put(@, j,
                            FailedRow(CurRow(c, j), error_message[c],
                                      txn_now[c]))]
                    ELSE wq
           /\ results' = [results EXCEPT ![c] =
                            Append(@, Result(j, "failed",
                                "Failed to send email: " \o error_message[c]))]
    /\ pc' = [pc EXCEPT ![c] = NextPc(c)]
    /\ idx' = [idx EXCEPT ![c] = @ + 1]
    /\ UNCHANGED <<workerVars, retryVars,
                   campVars, contacts, now, inboxes, email_queue,
                   inbox_daily_send_counts, txn_now,
                   batch, inbox_record, contact_record, current_send_count,
                   response_body, error_message, wc, posted, last_response>>

\* END of the function: the transaction commits, its rows become visible,
\* its locks are released and its local variables are gone; the caller holds
\* the returned rows.
Commit(c) ==
    /\ pc[c] = "commit"
    /\ email_queue' = Applied(email_queue, wq[c])
    /\ inbox_daily_send_counts' = Applied(inbox_daily_send_counts, wc[c])
    /\ wq' = [wq EXCEPT ![c] = EmptyRows]
    /\ wc' = [wc EXCEPT ![c] = EmptyRows]
    /\ pc' = [pc EXCEPT ![c] = "idle"]
    /\ txn_now' = [txn_now EXCEPT ![c] = 0]
    /\ batch' = [batch EXCEPT ![c] = << >>]
    /\ idx' = [idx EXCEPT ![c] = 1]
    /\ inbox_record' = [inbox_record EXCEPT ![c] = NullInbox]
    /\ contact_record' = [contact_record EXCEPT ![c] = NullContact]
    /\ current_send_count' = [current_send_count EXCEPT ![c] = 0]
    /\ response_body' = [response_body EXCEPT ![c] = NullBody]
    /\ error_message' = [error_message EXCEPT ![c] = NULL]
    /\ UNCHANGED <<workerVars, retryVars,
                   campVars, contacts, now, inboxes, results, posted, last_response>>

\* Time passes.
Tick ==
    /\ now < MaxNow
    /\ now' = now + TickStep
    /\ UNCHANGED <<workerVars, retryVars,
                   campVars, contacts, contact_record, inboxes, email_queue,
                   inbox_daily_send_counts, pc, txn_now,
                   batch, idx, inbox_record, current_send_count, response_body,
                   error_message, wq, wc, results, posted, last_response>>

\* No cycle is running.
AllIdle == \A c \in Cycles : pc[c] = "idle"

\* A statement of a cycle that has begun.
Step(c) ==
    \/ Check(c)
    \/ Reschedule(c)
    \/ Claim(c)
    \/ PostReturn(c)
    \/ PostRaise(c)
    \/ Upsert(c)
    \/ Handler(c)
    \/ Commit(c)

\* Cycles may overlap.
Next ==
    \/ Tick
    \/ \E c \in Cycles : Begin(c)
    \/ \E c \in Cycles : Step(c)

Spec == Init /\ [][Next]_vars

\* A cycle begins only when no other is running (the cron scheduler does
\* not start a job that is still running).
BeginAlone(c) == AllIdle /\ Begin(c)

NextSeq ==
    \/ Tick
    \/ \E c \in Cycles : BeginAlone(c)
    \/ \E c \in Cycles : Step(c)

SpecSeq == Init /\ [][NextSeq]_vars

\* The end-to-end scenario: cycles one after another on one day, every
\* request answered.
NextE2E ==
    \/ \E c \in Cycles : BeginAlone(c)
    \/ \E c \in Cycles : Check(c)
    \/ \E c \in Cycles : Reschedule(c)
    \/ \E c \in Cycles : Claim(c)
    \/ \E c \in Cycles : PostReturn(c)
    \/ \E c \in Cycles : Upsert(c)
    \/ \E c \in Cycles : Commit(c)

SpecE2E == InitE2E /\ [][NextE2E]_vars

\* DELETE FROM contacts WHERE id = k, by the user who owns the contact, in a
\* transaction of its own: the rows of email_queue and campaign_contacts that
\* reference the contact go with it (ON DELETE CASCADE).  The statement
\* waits while a cycle holds a lock on one of those rows.  Contacts with a
\* job still queued are the ones deleted here.
DeleteContact(k) ==
    LET gone == {j \in DOMAIN email_queue : email_queue[j].contact_id = k}
    IN  /\ k \in DOMAIN contacts
        /\ \E j \in gone : email_queue[j].status = "queued"
        /\ \A c \in Cycles : \A j \in gone : j \notin DOMAIN wq[c]
        /\ contacts' = [x \in DOMAIN contacts \ {k} |-> contacts[x]]
        /\ email_queue' = [j \in DOMAIN email_queue \ gone |-> email_queue[j]]
        /\ campaign_contacts' = {cc \in campaign_contacts : cc[2] # k}
        /\ UNCHANGED <<workerVars, retryVars,
                       now, inboxes, inbox_daily_send_counts, pc, txn_now,
                       batch, idx, inbox_record, contact_record,
                       current_send_count, response_body, error_message, wq,
                       wc, results, posted, last_response, campaigns,
                       email_steps, email_queue_id_seq, sc_pc,
                       campaign_id_to_start, first_step, contact_cursor,
                       current_send_time, sc_now, wi, sc_result, calls>>

\* Cycles one after another while contacts are deleted.
NextDel ==
    \/ \E c \in Cycles : BeginAlone(c)
    \/ \E c \in Cycles : Step(c)
    \/ \E k \in 1..(PreSent + NJobs) : DeleteContact(k)

SpecDel == Init /\ [][NextDel]_vars

\* A statement outside the inner BEGIN ... EXCEPTION block fails (the
\* lookups and the counter read, the reschedule UPDATE, the claim UPDATE, the
\* UPDATE of the handler itself): nothing catches the exception, the function
\* ends with the error, its transaction is rolled back and no row is
\* returned.  (The jobs it had mailed are queued again and will be mailed
\* again: failures are explored while no job has been mailed MaxPosts times.)
RaiseOutsideBlock(c) ==
    /\ pc[c] \in {"check", "reschedule", "claim", "handler"}
    /\ \A j \in DOMAIN posted : posted[j] < MaxPosts
    /\ email_queue' = RolledBack(email_queue, wq[c])
    /\ inbox_daily_send_counts' = RolledBack(inbox_daily_send_counts, wc[c])
    /\ wq' = [wq EXCEPT ![c] = EmptyRows]
    /\ wc' = [wc EXCEPT ![c] = EmptyRows]
    /\ results' = [results EXCEPT ![c] = << >>]
    /\ pc' = [pc EXCEPT ![c] = "idle"]
    /\ txn_now' = [txn_now EXCEPT ![c] = 0]
    /\ batch' = [batch EXCEPT ![c] = << >>]
    /\ idx' = [idx EXCEPT ![c] = 1]
    /\ inbox_record' = [inbox_record EXCEPT ![c] = NullInbox]
    /\ contact_record' = [contact_record EXCEPT ![c] = NullContact]
    /\ current_send_count' = [current_send_count EXCEPT ![c] = 0]
    /\ response_body' = [response_body EXCEPT ![c] = NullBody]
    /\ error_message' = [error_message EXCEPT ![c] = NULL]
    /\ UNCHANGED <<workerVars, retryVars,
                   campVars, contacts, now, inboxes, posted, last_response>>

\* Cycles one after another, any statement of which may fail.
NextErr ==
    \/ \E c \in Cycles : BeginAlone(c)
    \/ \E c \in Cycles : Step(c)
    \/ \E c \in Cycles : RaiseOutsideBlock(c)

SpecErr == Init /\ [][NextErr]_vars

\* Overlapping cycles on one counter: NJobs jobs of inbox 1 are queued and
\* due, inbox 1 has sent p mails today.
InitRace ==
    /\ now = Now0
    /\ inboxes = InboxTable
    /\ \E p \in {0, PreSent} :
          /\ email_queue =
               [j \in 1..(p + NJobs) |->
                  IF j <= p
                  THEN QueueRow(1, j, OneDay + j, "sent",
                                OneDay + 60 * ((j - 1) \div batch_size + 1))
                  ELSE QueueRow(1, j, Now0 - (NJobs + 1) + (j - p), "queued", 0)]
          /\ inbox_daily_send_counts =
               [key \in (IF p = 0 THEN {} ELSE {<<1, Date(Now0)>>}) |-> p]
          /\ posted = [j \in 1..(p + NJobs) |-> IF j <= p THEN 1 ELSE 0]
          /\ last_response = [j \in 1..(p + NJobs) |-> IF j <= p THEN 400 ELSE 0]
          /\ contacts = [k \in 1..(p + NJobs) |-> ContactRow(k, "Ann", "Acme")]
          /\ email_queue_id_seq = p + NJobs
    /\ CyclesIdle
    /\ CampaignActive
    /\ StartCampaignIdle
    /\ WorkerIdle
    /\ RetryIdle

\* Cycles may overlap; no time passes.
NextRace ==
    \/ \E c \in Cycles : Begin(c)
    \/ \E c \in Cycles : Step(c)

SpecRace == InitRace /\ [][NextRace]_vars

\* More due jobs than a batch holds: BatchJobs jobs of inbox 1 are queued,
\* the first d of them due, the others due after the next tick; inbox 1 has
\* sent p mails today.
InitBatch ==
    /\ now = Now0
    /\ inboxes = InboxTable
    /\ \E p \in {0, PreSent} :
       \E d \in 0..BatchJobs :
          /\ email_queue =
               [j \in 1..(p + BatchJobs) |->
                  IF j <= p
                  THEN QueueRow(1, j, OneDay + j, "sent",
                                OneDay + 60 * ((j - 1) \div batch_size + 1))
                  ELSE QueueRow(1, j, IF j - p <= d
                                      THEN Now0 - (BatchJobs + 1) + (j - p)
                                      ELSE Now0 + (j - p),
                                "queued", 0)]
          /\ inbox_daily_send_counts =
               [key \in (IF p = 0 THEN {} ELSE {<<1, Date(Now0)>>}) |-> p]
          /\ posted = [j \in 1..(p + BatchJobs) |-> IF j <= p THEN 1 ELSE 0]
          /\ last_response = [j \in 1..(p + BatchJobs) |-> IF j <= p THEN 400 ELSE 0]
          /\ contacts = [k \in 1..(p + BatchJobs) |-> ContactRow(k, "Ann", "Acme")]
          /\ email_queue_id_seq = p + BatchJobs
    /\ CyclesIdle
    /\ CampaignActive
    /\ StartCampaignIdle
    /\ WorkerIdle
    /\ RetryIdle

\* Cycles one after another while time passes, every request answered.
NextBatch ==
    \/ Tick
    \/ NextE2E

SpecBatch == InitBatch /\ [][NextBatch]_vars

\* Step 6 fails (the upsert raises after http_post returned): the UPDATE to
\* 'sent' of the inner block is undone and control goes to the EXCEPTION
\* handler with MESSAGE_TEXT; the counter row is not written.
UpsertRaise(c) ==
    /\ pc[c] = "upsert"
    /\ error_message' = [error_message EXCEPT ![c] = UpsertError]
    /\ LET j == Job(c)
       IN  wq' = IF RowExists(c, j)
                 THEN [wq EXCEPT ![c] = Put(@, j, SavepointRow(CurRow(c, j)))]
                 ELSE wq
    /\ pc' = [pc EXCEPT ![c] = "handler"]
    /\ UNCHANGED <<workerVars, retryVars,
                   campVars, contacts, now, inboxes, email_queue,
                   inbox_daily_send_counts, txn_now,
                   batch, idx, inbox_record, contact_record, current_send_count,
                   response_body, wc, results, posted, last_response>>

\* Failures are explored for the first MaxFailAt jobs of a batch.
FailsEarly(c) == idx[c] <= MaxFailAt

\* Cycles one after another over more jobs than a batch holds; a request
\* may stay unanswered and an upsert may fail.
NextFail ==
    \/ \E c \in Cycles : BeginAlone(c)
    \/ \E c \in Cycles : Check(c)
    \/ \E c \in Cycles : Reschedule(c)
    \/ \E c \in Cycles : Claim(c)
    \/ \E c \in Cycles : PostReturn(c)
    \/ \E c \in Cycles : FailsEarly(c) /\ PostRaise(c)
    \/ \E c \in Cycles : Upsert(c)
    \/ \E c \in Cycles : FailsEarly(c) /\ UpsertRaise(c)
    \/ \E c \in Cycles : Handler(c)
    \/ \E c \in Cycles : Commit(c)

SpecFail == InitBatch /\ [][NextFail]_vars

\* Every statement of a cycle moves its position.
position == <<pc, idx>>

\* The cron job keeps starting cycles (one every minute, when none is
\* running) and a cycle that has begun runs on to its end; every request is
\* answered.
SpecLive ==
    /\ InitBatch
    /\ [][NextE2E]_vars
    /\ WF_position(\E c \in Cycles : BeginAlone(c))
    /\ \A c \in Cycles : WF_position(Step(c))

-----------------------------------------------------------------------------
(* start_campaign(campaign_id_to_start): one call is one transaction *)

CampaignIds == {1, 2}
Owners == {"u1", "u2"}

\* Campaign 1 is in draft; its owner has an inbox (u1) or none (u2); its
\* sequence holds the steps lo..MaxSteps (none when lo > MaxSteps); the
\* contacts 1..n are enrolled; contact nf has no first name and contact nc
\* no company name (0: no such contact).  There is no campaign 2.
InitCamp ==
    /\ now = Now0
    /\ inboxes = [i \in {1} |-> InboxTable[i]]
    /\ email_queue = EmptyRows
    /\ inbox_daily_send_counts = EmptyRows
    /\ posted = EmptyRows
    /\ last_response = EmptyRows
    /\ email_queue_id_seq = 0
    /\ \E own \in Owners :
          campaigns = [c \in {1} |->
                         [user_id |-> own, sequence_id |-> 1, status |-> "draft"]]
    /\ \E lo \in 1..(MaxSteps + 1) :
          email_steps = [e \in {StepId(m) : m \in lo..MaxSteps} |->
                           StepRow(CHOOSE m \in lo..MaxSteps : StepId(m) = e)]
    /\ \E nf \in 0..MaxContacts : \E nc \in 0..MaxContacts :
          contacts = [k \in 1..MaxContacts |->
                        ContactRow(k, IF k = nf THEN NULL ELSE "Ann",
                                      IF k = nc THEN NULL ELSE "Acme")]
    /\ \E n \in 0..MaxContacts : campaign_contacts = {<<1, k>> : k \in 1..n}
    /\ CyclesIdle
    /\ StartCampaignIdle
    /\ WorkerIdle
    /\ RetryIdle

\* The local variables of a call that has ended.
StartCampaignEnded ==
    /\ sc_pc' = "idle"
    /\ first_step' = NullStep
    /\ contact_cursor' = {}
    /\ current_send_time' = 0
    /\ sc_now' = 0
    /\ wi' = EmptyRows

\* supabase.rpc('start_campaign', ...): the first step is found and the FOR
\* query over the enrolled contacts is opened.
StartCampaign(cid) ==
    /\ sc_pc = "idle"
    /\ calls < MaxCalls
    /\ ~NoFirstStep(FirstStep(cid))
    /\ calls' = calls + 1
    /\ campaign_id_to_start' = cid
    /\ first_step' = FirstStep(cid)
    /\ contact_cursor' = EnrolledContacts(cid)
    /\ current_send_time' = now
    /\ sc_now' = now
    /\ wi' = EmptyRows
    /\ sc_result' = NULL
    /\ sc_pc' = "loop"
    /\ UNCHANGED <<workerVars, retryVars,
                   now, inboxes, email_queue, inbox_daily_send_counts, pc,
                   txn_now, batch, idx, inbox_record, contact_record,
                   current_send_count, response_body, error_message, wq, wc,
                   results, posted, last_response, contacts, campaigns,
                   email_steps, campaign_contacts, email_queue_id_seq>>

\* RAISE EXCEPTION 'Campaign % has no email steps in its sequence.'
StartCampaignRaise(cid) ==
    /\ sc_pc = "idle"
    /\ calls < MaxCalls
    /\ NoFirstStep(FirstStep(cid))
    /\ calls' = calls + 1
    /\ campaign_id_to_start' = cid
    /\ sc_result' = "Campaign has no email steps in its sequence."
    /\ email_queue' = RolledBack(email_queue, EmptyRows)
    /\ StartCampaignEnded
    /\ UNCHANGED <<workerVars, retryVars,
                   now, inboxes, inbox_daily_send_counts, pc,
                   txn_now, batch, idx, inbox_record, contact_record,
                   current_send_count, response_body, error_message, wq, wc,
                   results, posted, last_response, contacts, campaigns,
                   email_steps, campaign_contacts, email_queue_id_seq>>

\* One pass of the loop: personalize, draw the delay, INSERT INTO email_queue.
InsertJob ==
    /\ sc_pc = "loop"
    /\ \E ct \in contact_cursor :
       \E r \in RandSamples :
       \E inbox \in InboxOf(OwnerOf(campaign_id_to_start)) :
          LET at == NextSendTime(current_send_time, sc_now, RandomDelay(r))
              row == NewJob(campaign_id_to_start, ct, inbox, at)
          IN  /\ ~ViolatesNotNull(row)
              /\ current_send_time' = at
              /\ email_queue_id_seq' = email_queue_id_seq + 1
              /\ wi' = Put(wi, email_queue_id_seq + 1, row)
              /\ contact_cursor' = contact_cursor \ {ct}
    /\ UNCHANGED <<workerVars, retryVars,
                   now, inboxes, email_queue, inbox_daily_send_counts, pc,
                   txn_now, batch, idx, inbox_record, contact_record,
                   current_send_count, response_body, error_message, wq, wc,
                   results, posted, last_response, contacts, campaigns,
                   email_steps, campaign_contacts, sc_pc, campaign_id_to_start,
                   first_step, sc_now, sc_result, calls>>

\* The INSERT violates a NOT NULL constraint: the exception ends the call.
InsertJobRaise ==
    /\ sc_pc = "loop"
    /\ \E ct \in contact_cursor :
       \E r \in RandSamples :
       \E inbox \in InboxOf(OwnerOf(campaign_id_to_start)) :
          LET at == NextSendTime(current_send_time, sc_now, RandomDelay(r))
              row == NewJob(campaign_id_to_start, ct, inbox, at)
          IN  ViolatesNotNull(row)
    /\ email_queue_id_seq' = email_queue_id_seq + 1
    /\ email_queue' = RolledBack(email_queue, wi)
    /\ sc_result' = "null value violates not-null constraint"
    /\ StartCampaignEnded
    /\ UNCHANGED <<workerVars, retryVars,
                   now, inboxes, inbox_daily_send_counts, pc,
                   txn_now, batch, idx, inbox_record, contact_record,
                   current_send_count, response_body, error_message, wq, wc,
                   results, posted, last_response, contacts, campaigns,
                   email_steps, campaign_contacts, campaign_id_to_start, calls>>

\* END LOOP; UPDATE campaigns SET status = 'active' WHERE id = ...; the
\* function returns and its transaction commits.
Activate ==
    /\ sc_pc = "loop"
    /\ contact_cursor = {}
    /\ campaigns' = [c \in DOMAIN campaigns |->
                       IF c = campaign_id_to_start
                       THEN [campaigns[c] EXCEPT !.status = "active"]
                       ELSE campaigns[c]]
    /\ email_queue' = Applied(email_queue, wi)
    /\ sc_result' = "ok"
    /\ StartCampaignEnded
    /\ UNCHANGED <<workerVars, retryVars,
                   now, inboxes, inbox_daily_send_counts, pc,
                   txn_now, batch, idx, inbox_record, contact_record,
                   current_send_count, response_body, error_message, wq, wc,
                   results, posted, last_response, contacts,
                   email_steps, campaign_contacts, email_queue_id_seq,
                   campaign_id_to_start, calls>>

NextCamp ==
    \/ \E cid \in CampaignIds : StartCampaign(cid)
    \/ \E cid \in CampaignIds : StartCampaignRaise(cid)
    \/ InsertJob
    \/ InsertJobRaise
    \/ Activate

SpecCamp == InitCamp /\ [][NextCamp]_vars

-----------------------------------------------------------------------------
(* send-email-worker: the serve handler, one action per await *)

\* The variables of process_email_queue and the tables only it works on.
engineVars == <<email_queue, inbox_daily_send_counts, pc, txn_now, batch, idx,
                inbox_record, contact_record, current_send_count,
                response_body, error_message, wq, wc, results, posted,
                last_response, contacts>>

\* The requests the worker is called with: inbox_id absent (NoInbox), the
\* id of an inbox, or an id that no inbox has; the subject may be empty.
Requests ==
    {[inbox_id |-> i, contact_email |-> ContactEmail(1), subject |-> sub,
      body |-> "Body"] :
        i \in {NoInbox} \cup Inboxes \cup {3}, sub \in {"", "Hello"}}

\* !inbox_id || !contact_email || !subject || !body
MissingRequired(r) ==
    \/ r.inbox_id = NoInbox
    \/ Falsy(r.contact_email)
    \/ Falsy(r.subject)
    \/ Falsy(r.body)

\* expires_in of the token endpoint's answer, in seconds.
ExpiresIn == 3600

\* The n-th access token the token endpoint issues.
NewToken(n) == "new" \o ToString(n)

\* The refresh that goes on with the token it had.
RefreshedToken_Old(old, new) == old

\* access_token = newAccessToken
RefreshedToken(old, new) == new

\* new Response(JSON.stringify({ error }), { status })
ErrorResponse(st, msg) == [status |-> st, content |-> [error |-> msg]]

\* An inbox holds a refresh token or none, and an access token that expired
\* long ago, that expires now, or that is valid for a long time.
InitWorker ==
    /\ now = Now0
    /\ \E rt \in [Inboxes -> {NULL, "ref"}] :
       \E ex \in [Inboxes -> {0, Now0, MaxNow + OneDay}] :
          inboxes = [i \in Inboxes |->
                       [InboxTable[i] EXCEPT !.refresh_token = rt[i],
                                             !.expires_at = ex[i]]]
    /\ email_queue = EmptyRows
    /\ inbox_daily_send_counts = EmptyRows
    /\ posted = EmptyRows
    /\ last_response = EmptyRows
    /\ email_queue_id_seq = 0
    /\ contacts = [k \in {1} |-> ContactRow(k, "Ann", "Acme")]
    /\ CyclesIdle
    /\ CampaignActive
    /\ StartCampaignIdle
    /\ WorkerIdle
    /\ RetryIdle

\* A POST arrives whose body lacks a required field: 400.
WorkerReject(r) ==
    /\ w_pc = "idle"
    /\ MissingRequired(r)
    /\ w_req' = r
    /\ response' = ErrorResponse(400, "Missing required fields")
    /\ UNCHANGED <<w_pc, w_inbox, access_token, expires_at, checked_at,
                   issued, gmail>>
    /\ UNCHANGED <<engineVars, campVars, retryVars, now, inboxes>>

\* A POST arrives with all the required fields.
WorkerAccept(r) ==
    /\ w_pc = "idle"
    /\ ~MissingRequired(r)
    /\ Len(gmail) < MaxSends
    /\ issued < MaxIssued
    /\ w_req' = r
    /\ w_inbox' = NullInbox
    /\ access_token' = NULL
    /\ expires_at' = 0
    /\ checked_at' = 0
    /\ response' = NoResponse
    /\ w_pc' = "fetch"
    /\ UNCHANGED <<issued, gmail>>
    /\ UNCHANGED <<engineVars, campVars, retryVars, now, inboxes>>

\* 1. Fetch inbox credentials: the row is found.
WorkerFetch ==
    /\ w_pc = "fetch"
    /\ w_req.inbox_id \in DOMAIN inboxes
    /\ w_inbox' = inboxes[w_req.inbox_id]
    /\ access_token' = inboxes[w_req.inbox_id].access_token
    /\ expires_at' = inboxes[w_req.inbox_id].expires_at
    /\ w_pc' = "expiry"
    /\ UNCHANGED <<w_req, checked_at, issued, gmail, response>>
    /\ UNCHANGED <<engineVars, campVars, retryVars, now, inboxes>>

\* 1. Fetch inbox credentials: fetchError || !inbox, thrown and caught: 500.
WorkerFetchFail ==
    /\ w_pc = "fetch"
    /\ response' = ErrorResponse(500, "Could not find inbox with ID")
    /\ w_pc' = "idle"
    /\ UNCHANGED <<w_req, w_inbox, access_token, expires_at, checked_at,
                   issued, gmail>>
    /\ UNCHANGED <<engineVars, campVars, retryVars, now, inboxes>>

\* 2. if (new Date() > expiresAtDate): on to the send, on to the refresh,
\* or, with no refresh token, thrown and caught: 500.
WorkerCheckExpiry ==
    /\ w_pc = "expiry"
    /\ checked_at' = now
    /\ IF now > expires_at
       THEN IF Falsy(w_inbox.refresh_token)
            THEN /\ response' = ErrorResponse(500,
                       "Access token expired and no refresh token is available.")
                 /\ w_pc' = "idle"
            ELSE /\ response' = response
                 /\ w_pc' = "refresh"
       ELSE /\ response' = response
            /\ w_pc' = "send"
    /\ UNCHANGED <<w_req, w_inbox, access_token, expires_at, issued, gmail>>
    /\ UNCHANGED <<engineVars, campVars, retryVars, now, inboxes>>

\* refreshAccessToken answers with a new token.
WorkerRefresh ==
    /\ w_pc = "refresh"
    /\ issued' = issued + 1
    /\ access_token' = RefreshedToken(access_token, NewToken(issued + 1))
    /\ expires_at' = now + ExpiresIn
    /\ w_pc' = "update"
    /\ UNCHANGED <<w_req, w_inbox, checked_at, gmail, response>>
    /\ UNCHANGED <<engineVars, campVars, retryVars, now, inboxes>>

\* refreshAccessToken throws (client credentials not configured, or the
\* token endpoint does not answer ok): caught, 500.
WorkerRefreshFail ==
    /\ w_pc = "refresh"
    /\ response' = ErrorResponse(500, "Failed to refresh access token.")
    /\ w_pc' = "idle"
    /\ UNCHANGED <<w_req, w_inbox, access_token, expires_at, checked_at,
                   issued, gmail>>
    /\ UNCHANGED <<engineVars, campVars, retryVars, now, inboxes>>

\* Update the inbox with the new token and expiry.
WorkerUpdate ==
    /\ w_pc = "update"
    /\ inboxes' = [i \in DOMAIN inboxes |->
                     IF i = w_req.inbox_id
                     THEN [inboxes[i] EXCEPT !.access_token = access_token,
                                             !.expires_at = expires_at]
                     ELSE inboxes[i]]
    /\ w_pc' = "send"
    /\ UNCHANGED <<w_req, w_inbox, access_token, expires_at, checked_at,
                   issued, gmail, response>>
    /\ UNCHANGED <<engineVars, campVars, retryVars, now>>

\* The update fails: updateError is logged and the worker goes on.
WorkerUpdateError ==
    /\ w_pc = "update"
    /\ w_pc' = "send"
    /\ UNCHANGED <<w_req, w_inbox, access_token, expires_at, checked_at,
                   issued, gmail, response>>
    /\ UNCHANGED <<engineVars, campVars, retryVars, now, inboxes>>

\* One call of sendEmailWithGmail.
GmailCall(ok) ==
    [accessToken |-> access_token, from |-> w_inbox.email,
     to |-> w_req.contact_email, subject |-> w_req.subject,
     body |-> w_req.body, ok |-> ok]

\* 3. Send the email: the Gmail API answers ok, 200.
WorkerSend ==
    /\ w_pc = "send"
    /\ gmail' = Append(gmail, GmailCall(TRUE))
    /\ response' = [status |-> 200,
                    content |-> [message |-> "Email sent successfully"]]
    /\ w_pc' = "idle"
    /\ UNCHANGED <<w_req, w_inbox, access_token, expires_at, checked_at,
                   issued>>
    /\ UNCHANGED <<engineVars, campVars, retryVars, now, inboxes>>

\* 3. Send the email: the Gmail API does not answer ok, thrown and caught:
\* 500.
WorkerSendFail ==
    /\ w_pc = "send"
    /\ gmail' = Append(gmail, GmailCall(FALSE))
    /\ response' = ErrorResponse(500, "Gmail API error: Unknown error")
    /\ w_pc' = "idle"
    /\ UNCHANGED <<w_req, w_inbox, access_token, expires_at, checked_at,
                   issued>>
    /\ UNCHANGED <<engineVars, campVars, retryVars, now, inboxes>>

NextWorker ==
    \/ Tick
    \/ \E r \in Requests : WorkerReject(r)
    \/ \E r \in Requests : WorkerAccept(r)
    \/ WorkerFetch
    \/ WorkerFetchFail
    \/ WorkerCheckExpiry
    \/ WorkerRefresh
    \/ WorkerRefreshFail
    \/ WorkerUpdate
    \/ WorkerUpdateError
    \/ WorkerSend
    \/ WorkerSendFail

SpecWorker == InitWorker /\ [][NextWorker]_vars

-----------------------------------------------------------------------------
(* retryWithBackoff(fn, options): one action per await *)

\* The defaults of the options.
DefaultMaxRetries == 3
initialDelay == 1000
maxDelay == 10000

\* The errors fn may throw.
Errors == {"e1", "e2"}

\* What the n-th call of fn resolves with.
FnResult(n) == "result" \o ToString(n)

RECURSIVE Pow2(_)
Pow2(n) == IF n = 0 THEN 1 ELSE 2 * Pow2(n - 1)

\* Math.min(initialDelay * Math.pow(2, attempt), maxDelay)
Backoff(n) ==
    IF initialDelay * Pow2(n) < maxDelay THEN initialDelay * Pow2(n) ELSE maxDelay

\* The loop that stops one call early.
LoopGoesOn_Strict(a, m) == a < m

\* attempt <= maxRetries
LoopGoesOn(a, m) == a <= m

\* No call has been made; the tables are those of an idle engine.
InitRetry ==
    /\ now = Now0
    /\ inboxes = InboxTable
    /\ email_queue = EmptyRows
    /\ inbox_daily_send_counts = EmptyRows
    /\ posted = EmptyRows
    /\ last_response = EmptyRows
    /\ email_queue_id_seq = 0
    /\ contacts = [k \in {1} |-> ContactRow(k, "Ann", "Acme")]
    /\ CyclesIdle
    /\ CampaignActive
    /\ StartCampaignIdle
    /\ WorkerIdle
    /\ RetryIdle

\* The call, with the options maxRetries and (when cb) onRetry given: the
\* loop is entered with attempt = 0.
RetryWithBackoff(m, cb) ==
    /\ rb_pc = "idle"
    /\ maxRetries' = m
    /\ onRetry' = cb
    /\ attempt' = 0
    /\ lastError' = undefined
    /\ rb_pc' = IF LoopGoesOn(0, m) THEN "call" ELSE "throw"
    /\ UNCHANGED <<rb_delay, fn_calls, onRetry_calls, outcome>>
    /\ UNCHANGED <<engineVars, campVars, workerVars, now, inboxes>>

\* The call without options.
RetryWithBackoffDefault == RetryWithBackoff(DefaultMaxRetries, FALSE)

\* return await fn(): fn resolves.
FnResolves ==
    /\ rb_pc = "call"
    /\ fn_calls' = Append(fn_calls, "ok")
    /\ outcome' = [kind |-> "returned", value |-> FnResult(Len(fn_calls) + 1)]
    /\ rb_pc' = "done"
    /\ UNCHANGED <<maxRetries, onRetry, attempt, lastError, rb_delay,
                   onRetry_calls>>
    /\ UNCHANGED <<engineVars, campVars, workerVars, now, inboxes>>

\* fn rejects with e: the catch block up to its await (or, on the last
\* attempt, to the end of the loop).
FnRejects(e) ==
    /\ rb_pc = "call"
    /\ fn_calls' = Append(fn_calls, e)
    /\ lastError' = e
    /\ IF attempt < maxRetries
       THEN /\ rb_delay' = Backoff(attempt)
            /\ onRetry_calls' = IF onRetry
                                THEN Append(onRetry_calls, <<attempt + 1, e>>)
                                ELSE onRetry_calls
            /\ attempt' = attempt
            /\ rb_pc' = "sleep"
       ELSE /\ attempt' = attempt + 1
            /\ rb_pc' = IF LoopGoesOn(attempt + 1, maxRetries)
                        THEN "call" ELSE "throw"
            /\ UNCHANGED <<rb_delay, onRetry_calls>>
    /\ UNCHANGED <<maxRetries, onRetry, outcome>>
    /\ UNCHANGED <<engineVars, campVars, workerVars, now, inboxes>>

\* The timer of the backoff fires: attempt++ and the loop test.
TimerFires ==
    /\ rb_pc = "sleep"
    /\ attempt' = attempt + 1
    /\ rb_pc' = IF LoopGoesOn(attempt + 1, maxRetries) THEN "call" ELSE "throw"
    /\ UNCHANGED <<maxRetries, onRetry, lastError, rb_delay, fn_calls,
                   onRetry_calls, outcome>>
    /\ UNCHANGED <<engineVars, campVars, workerVars, now, inboxes>>

\* throw lastError
ThrowLastError ==
    /\ rb_pc = "throw"
    /\ outcome' = [kind |-> "thrown", value |-> lastError]
    /\ rb_pc' = "done"
    /\ UNCHANGED <<maxRetries, onRetry, attempt, lastError, rb_delay,
                   fn_calls, onRetry_calls>>
    /\ UNCHANGED <<engineVars, campVars, workerVars, now, inboxes>>

NextRetry ==
    \/ \E m \in 0..MaxRetriesBound : \E cb \in BOOLEAN : RetryWithBackoff(m, cb)
    \/ RetryWithBackoffDefault
    \/ FnResolves
    \/ \E e \in Errors : FnRejects(e)
    \/ TimerFires
    \/ ThrowLastError

\* The promise of fn settles and the timers fire.
SpecRetry == InitRetry /\ [][NextRetry]_vars /\ WF_retryVars(NextRetry)

-----------------------------------------------------------------------------
(* Properties *)

\* GetCount(senderId, date): 0 if no row exists.
GetCount(s, d) ==
    IF <<s, d>> \in DOMAIN inbox_daily_send_counts
    THEN inbox_daily_send_counts[<<s, d>>]
    ELSE 0

Dates == 0..Date(MaxNow)

JobsWith(s, st) ==
    {j \in DOMAIN email_queue :
        email_queue[j].inbox_id = s /\ email_queue[j].status = st}

\* C1: under any interleaving of overlapping dispatch cycles the Send
\* Capability (the http_post call) is invoked at most once for a job.
C1_AtMostOneSendPerJob == \A j \in DOMAIN posted : posted[j] <= 1

\* C2: the claim is a compare-and-swap: a claim attempt on a job whose
\* status is no longer queued matches no row (writes nothing) and the cycle
\* skips the job instead of going on to send it.
C2_ClaimIsCompareAndSwap ==
    [][\A c \in Cycles :
          (pc[c] = "claim" /\ pc'[c] # "claim"
              /\ CurRow(c, Job(c)).status # "queued")
          => (wq'[c] = wq[c] /\ pc'[c] # "post")]_vars

\* C3: under any interleaving of overlapping cycles the counter of a sender
\* for one day, and the number of its jobs sent that day, never exceed the
\* daily limit.
C3_DailyLimitNeverExceeded ==
    \A s \in Inboxes : \A d \in Dates :
        /\ GetCount(s, d) <= daily_limit_per_inbox
        /\ Cardinality({j \in JobsWith(s, "sent") :
                           Date(email_queue[j].updated_at) = d})
               <= daily_limit_per_inbox

\* The positions of the rows of sender s in the rows cycle c returned.
ResultsOf(c, s) ==
    {k \in DOMAIN results[c] :
        email_queue[results[c][k].queue_id].inbox_id = s}

\* C4: the quota check uses the sender's own daily limit L: when a cycle has
\* handled k > L due jobs of a sender whose count was 0, none of them
\* failing, exactly L of them are sent and the others are rescheduled.
C4_SendersOwnLimit ==
    \A c \in Cycles : \A s \in Inboxes :
        LET mine == ResultsOf(c, s)
            sent == {k \in mine : results[c][k].status = "sent"}
            day  == Date(email_queue[results[c][1].queue_id].updated_at)
            L    == inboxes[s].daily_send_limit
        IN  (/\ pc[c] = "idle"
             /\ Cardinality(mine) > L
             /\ \A k \in mine : results[c][k].status # "failed"
             /\ GetCount(s, day) = Cardinality(sent))
            => /\ Cardinality(sent) = L
               /\ \A k \in mine \ sent :
                     /\ results[c][k].status = "rescheduled"
                     /\ email_queue[results[c][k].queue_id].status = "rescheduled"

\* C5: sender limit 40, 45 jobs due, batch size 10, cycles one after another,
\* every request answered: the jobs are evaluated in send_at order, the
\* first 40 are sent (10 in each of the first four cycles) and every job
\* evaluated after that is rescheduled; never more than 40 are sent.
C5_EndToEndCap ==
    /\ \A s \in Inboxes : \A d \in Dates : GetCount(s, d) <= daily_limit_per_inbox
    /\ Cardinality({j \in DOMAIN posted : posted[j] > 0}) <= daily_limit_per_inbox
    /\ \A c \in Cycles : \A k \in DOMAIN results[c] :
          results[c][k].status =
             IF results[c][k].queue_id <= daily_limit_per_inbox
             THEN "sent" ELSE "rescheduled"
    /\ AllIdle =>
          \E n \in 0..E2EJobs :
             LET done == IF n * batch_size < E2EJobs
                         THEN n * batch_size ELSE E2EJobs
             IN  /\ \A j \in DOMAIN email_queue :
                       email_queue[j].status =
                          IF j > done THEN "queued"
                          ELSE IF j <= daily_limit_per_inbox THEN "sent"
                          ELSE "rescheduled"
                 /\ GetCount(1, Date(Now0)) =
                       IF done < daily_limit_per_inbox
                       THEN done ELSE daily_limit_per_inbox

\* C5, its case: all the jobs have been handled, 40 are sent and the rest
\* rescheduled to the next day.
C5_Witness ==
    /\ AllIdle
    /\ Cardinality(JobsWith(1, "sent")) = daily_limit_per_inbox
    /\ Cardinality(JobsWith(1, "rescheduled")) = E2EJobs - daily_limit_per_inbox
    /\ \A j \in JobsWith(1, "rescheduled") :
          email_queue[j].send_at = OneDay + j + OneDay

C7_SentOnlyOnSuccess ==
    \A c \in Cycles : \A k \in DOMAIN results[c] :
       results[c][k].status = "sent"
          => last_response[results[c][k].queue_id] = 200

\* C8: a job whose sender's credential is expired with no refresh token is
\* failed, with an error message, after the cycle that processed it.
C8_ExpiredCredentialFails ==
    \A c \in Cycles : \A k \in DOMAIN results[c] :
       LET j == results[c][k].queue_id
           inbox == inboxes[email_queue[j].inbox_id]
       IN  (/\ pc[c] = "idle"
            /\ results[c][k].status # "rescheduled"
            /\ email_queue[j].updated_at > inbox.expires_at
            /\ Falsy(inbox.refresh_token))
           => /\ email_queue[j].status = "failed"
              /\ email_queue[j].error_message # NULL

\* C9: a rescheduled job whose new send_at has elapsed is selected again by
\* the next cycle that starts (when the batch has room for it).
C9_RescheduledSelectedAgain ==
    [][\A c \in Cycles :
          (pc[c] = "idle" /\ pc'[c] # "idle")
          => \A j \in DOMAIN email_queue :
                (/\ email_queue[j].status = "rescheduled"
                 /\ email_queue[j].send_at <= now
                 /\ Len(batch'[c]) < batch_size)
                => j \in {batch'[c][i].id : i \in DOMAIN batch'[c]}]_vars

\* The forward moves of a job's status.
Forward(a, b) ==
    \/ a = "queued" /\ b \in {"sending", "sent", "failed", "rescheduled"}
    \/ a = "sending" /\ b \in {"sent", "failed", "rescheduled"}

\* C10: the status of a job only moves forward along
\* queued -> sending -> (sent | failed | rescheduled); a sent or failed job
\* never changes status again.
C10_StatusOnlyForward ==
    [][\A j \in DOMAIN email_queue :
          email_queue'[j].status # email_queue[j].status
          => Forward(email_queue[j].status, email_queue'[j].status)]_vars

\* The jobs of campaign cid in the queue.
JobsOfCampaign(cid) ==
    {j \in DOMAIN email_queue : email_queue[j].campaign_id = cid}

C12_ReactivationCreatesNothing ==
    \A j \in DOMAIN email_queue : \A k \in DOMAIN email_queue :
       (/\ email_queue[j].campaign_id = email_queue[k].campaign_id
        /\ email_queue[j].contact_id = email_queue[k].contact_id
        /\ email_queue[j].email_step_id = email_queue[k].email_step_id)
       => j = k

\* C13: when the campaign does not exist or its sequence has no step, a call
\* of start_campaign ends with an error and changes nothing: no job of the
\* campaign is inserted and its status is not set to active.
C13_NoStepsFailsUnchanged ==
    \A cid \in CampaignIds :
       (\/ cid \notin DOMAIN campaigns
        \/ \A e \in DOMAIN email_steps :
              email_steps[e].sequence_id # campaigns[cid].sequence_id)
       => /\ JobsOfCampaign(cid) = {}
          /\ \A j \in DOMAIN wi : wi[j].campaign_id # cid
          /\ cid \in DOMAIN campaigns => campaigns[cid].status # "active"
          /\ campaign_id_to_start = cid
                => /\ sc_pc = "idle"
                   /\ sc_result = "Campaign has no email steps in its sequence."

\* C13, its case: a call for a campaign that exists, with enrolled contacts
\* and a sequence without steps, has returned the error.
C13_Witness ==
    /\ campaign_id_to_start = 1
    /\ calls > 0
    /\ sc_result = "Campaign has no email steps in its sequence."
    /\ email_steps = EmptyRows
    /\ EnrolledContacts(1) # {}

\* C14 as stated: when an insert fails in the middle of the loop, the jobs
\* already inserted for the earlier contacts remain in the queue, and the
\* status of the campaign is not set to active.
C14_EarlierJobsRemain ==
    [][(sc_pc = "loop" /\ sc_pc' = "idle" /\ sc_result' # "ok")
       => /\ \A j \in DOMAIN wi : j \in DOMAIN email_queue'
          /\ campaigns' = campaigns]_vars

\* C14 as amended: when an insert fails in the middle of the loop, the call
\* ends with the error and everything it did is rolled back: none of the
\* jobs inserted for the earlier contacts is in the queue, and the status
\* of the campaign is not set to active.
C14_FailedInsertRollsBack ==
    [][(sc_pc = "loop" /\ sc_pc' = "idle" /\ sc_result' # "ok")
       => /\ email_queue' = email_queue
          /\ \A j \in DOMAIN wi : j \notin DOMAIN email_queue'
          /\ wi' = EmptyRows
          /\ campaigns' = campaigns]_vars

\* C14, its case: the first call failed at an insert after at least one
\* insert had succeeded (two ids were drawn), and the queue is empty.
C14_Witness ==
    /\ sc_pc = "idle"
    /\ calls = 1
    /\ sc_result = "null value violates not-null constraint"
    /\ email_queue_id_seq >= 2
    /\ email_queue = EmptyRows
    /\ campaigns[1].status = "draft"

\* C15: a cycle that starts when no job is both queued and due is a no-op:
\* it selects nothing, changes no row of email_queue and no row of
\* inbox_daily_send_counts, makes no http_post call and returns no rows.
C15_NothingDueIsNoOp ==
    [][\A c \in Cycles :
          /\ (/\ pc[c] = "idle" /\ pc'[c] # "idle"
              /\ \A j \in DOMAIN email_queue :
                    ~(email_queue[j].status = "queued"
                         /\ email_queue[j].send_at <= now))
             => /\ pc'[c] = "commit"
                /\ batch'[c] = << >>
                /\ results'[c] = << >>
                /\ wq'[c] = EmptyRows /\ wc'[c] = EmptyRows
                /\ email_queue' = email_queue
                /\ inbox_daily_send_counts' = inbox_daily_send_counts
                /\ posted' = posted
          /\ (pc[c] = "commit" /\ batch[c] = << >> /\ pc'[c] = "idle")
             => /\ results'[c] = << >>
                /\ email_queue' = email_queue
                /\ inbox_daily_send_counts' = inbox_daily_send_counts
                /\ posted' = posted]_vars

\* C15, its case: a cycle has started with jobs in the queue, one of them
\* queued but not due yet, and has selected nothing.
C15_Witness ==
    \E c \in Cycles :
       /\ pc[c] = "commit"
       /\ batch[c] = << >>
       /\ \E j \in DOMAIN email_queue :
             email_queue[j].status = "queued" /\ email_queue[j].send_at > now
       /\ \E j \in DOMAIN email_queue : email_queue[j].status # "queued"

C17_MissingReferenceFails ==
    \A c \in Cycles :
       /\ pc[c] \in {"reschedule", "claim", "post", "upsert", "handler"}
             => /\ contact_record[c] # NullContact
                /\ inbox_record[c] # NullInbox
       /\ (/\ pc[c] \in {"check", "commit"} /\ idx[c] > 1
           /\ (contact_record[c] = NullContact \/ inbox_record[c] = NullInbox))
             => results[c][idx[c] - 1] =
                   Result(batch[c][idx[c] - 1].id, "failed", "missing reference")

\* C18: an error in the processing of one selected job never aborts the
\* batch: a cycle that is at work on a job does not end there, the error of
\* a failed job is in the job's error_message and in the row returned for
\* it, and when the cycle reaches the end it has returned a row for every
\* job it selected.
C18_ErrorNeverAbortsBatch ==
    [][\A c \in Cycles :
          /\ pc[c] \notin {"idle", "commit"} => pc'[c] # "idle"
          /\ (pc[c] = "handler" /\ pc'[c] # "handler")
                => /\ Len(results'[c]) = Len(results[c]) + 1
                   /\ results'[c][Len(results'[c])].status = "failed"
                   /\ wq'[c][Job(c)].status = "failed"
                   /\ wq'[c][Job(c)].error_message # NULL
          /\ (pc[c] # "commit" /\ pc'[c] = "commit")
                => Len(results'[c]) = Len(batch'[c])]_vars

\* The sends cycle c has counted for sender s: the rows it returns as sent.
SentBy(c, s) ==
    {k \in DOMAIN results[c] :
        results[c][k].status = "sent" /\ batch[c][k].row.inbox_id = s}

\* C19: the counter of (sender, date) is created with 1 by the first
\* successful send and grows by exactly 1 for every job marked sent, also
\* when the sends are made by overlapping cycles (no lost update); it is
\* never decremented and failed or rescheduled jobs do not change it.  The
\* committed counter changes only when a cycle commits, and then by the
\* number of jobs that cycle has marked sent.
C19_CounterGrowsByOnePerSend ==
    [][/\ (\A c \in Cycles : ~(pc[c] = "commit" /\ pc'[c] = "idle"))
             => inbox_daily_send_counts' = inbox_daily_send_counts
       /\ \A c \in Cycles :
             (pc[c] = "commit" /\ pc'[c] = "idle")
                => \A s \in Inboxes : \A d \in Dates :
                      LET k == IF d = Date(txn_now[c])
                               THEN Cardinality(SentBy(c, s)) ELSE 0
                          old == GetCount(s, d)
                      IN  /\ <<s, d>> \in DOMAIN inbox_daily_send_counts'
                                <=> (<<s, d>> \in DOMAIN inbox_daily_send_counts
                                        \/ k > 0)
                          /\ <<s, d>> \in DOMAIN inbox_daily_send_counts'
                                => inbox_daily_send_counts'[<<s, d>>] = old + k
      ]_vars

\* C19, its case: a cycle is about to increment a counter that another,
\* overlapping cycle has incremented and committed since this cycle read it
\* for its quota check; rows of failed or rescheduled jobs have been
\* returned.
C19_Witness ==
    \E c \in Cycles :
       /\ pc[c] = "upsert"
       /\ current_send_count[c] < GetCount(EmailToSend(c).inbox_id, Date(txn_now[c]))
       /\ \E d \in Cycles \ {c} : \E k \in DOMAIN results[d] :
             results[d][k].status # "sent"

\* C20: a cycle returns exactly one row {queue_id, status, message} for each
\* job it selected, in the order of selection, and the status in the row is
\* the status the job has in the queue when the cycle ends (commits).
C20_OneResultPerSelectedJob ==
    [][\A c \in Cycles :
          (pc[c] = "commit" /\ pc'[c] = "idle")
          => /\ results'[c] = results[c]
             /\ Len(results[c]) = Len(batch[c])
             /\ \A k \in DOMAIN results[c] :
                   /\ DOMAIN results[c][k] = {"queue_id", "status", "message"}
                   /\ results[c][k].queue_id = batch[c][k].id
                   /\ email_queue'[batch[c][k].id].status = results[c][k].status
      ]_vars

\* C20, its case: a cycle that overlapped with another has ended and
\* returned a row for each of its jobs, not all with the same status.
C20_Witness ==
    \E c \in Cycles : \E d \in Cycles \ {c} :
       /\ pc[c] = "idle"
       /\ pc[d] # "idle"
       /\ Len(results[c]) = NJobs
       /\ \E k \in DOMAIN results[c] : \E m \in DOMAIN results[c] :
             results[c][k].status # results[c][m].status
       /\ \A k \in DOMAIN results[c] :
             email_queue[results[c][k].queue_id].status = results[c][k].status

\* The fields the serve handler requires of a request body.
RequiredFields == {"inbox_id", "contact_email", "subject", "body"}

\* C21: the request a cycle passes to the worker for a claimed job carries
\* every field the worker requires, so the worker never answers it with 400
\* 'Missing required fields'.
C21_RequestCarriesRequiredInputs ==
    [][\A c \in Cycles :
          (pc[c] = "post" /\ pc'[c] = "upsert")
          => /\ \A f \in RequiredFields : ~MissingField(RequestBody(c), f)
             /\ last_response'[Job(c)] # 400]_vars

\* REPLACE that leaves the text as it is when the attribute is absent.
ReplaceResolved(t, from, to) == IF to = NULL THEN t ELSE Replace(t, from, to)

\* The subject and the body of the job of contact ct with every resolvable
\* tag replaced and the other tags left verbatim.
LiteralSubject(step, ct) ==
    Stored(ReplaceResolved(ReplaceResolved(step.subject,
                               "{{firstName}}", contacts[ct].first_name),
                           "{{companyName}}", contacts[ct].company_name))

LiteralBody(step, ct) ==
    Stored(Concat(ReplaceResolved(ReplaceResolved(step.body,
                                      "{{firstName}}", contacts[ct].first_name),
                                  "{{companyName}}", contacts[ct].company_name),
                  Footer))

\* C22: merge tags are replaced literally: a call of start_campaign for a
\* campaign whose owner has an inbox creates a job for every enrolled
\* contact, with {{firstName}} and {{companyName}} replaced by the contact's
\* attributes, a tag whose attribute is absent (or an unknown tag) left
\* verbatim and the rest of the template unchanged.
C22_TagsReplacedLiterally ==
    [][(/\ sc_pc = "loop" /\ sc_pc' = "idle"
        /\ InboxOf(OwnerOf(campaign_id_to_start)) # {NoRow})
       => /\ sc_result' = "ok"
          /\ \A j \in DOMAIN email_queue' \ DOMAIN email_queue :
                LET ct == email_queue'[j].contact_id
                IN  /\ email_queue'[j].subject = LiteralSubject(first_step, ct)
                    /\ email_queue'[j].body = LiteralBody(first_step, ct)
          /\ {email_queue'[j].contact_id :
                 j \in DOMAIN email_queue' \ DOMAIN email_queue}
                = EnrolledContacts(campaign_id_to_start)]_vars

\* The values a credential (access token, service key) is varied over.
Credentials == {"tok1", "tok2", "secret"}

C24_ProcessedInSendAtOrder ==
    [][\A c \in Cycles :
          /\ (pc[c] = "idle" /\ pc'[c] # "idle")
                => \A i \in DOMAIN batch'[c] : \A k \in DOMAIN batch'[c] :
                      i < k => batch'[c][i].row.send_at <= batch'[c][k].row.send_at
          /\ (pc[c] = "check" /\ pc'[c] # "check")
                => LET s == EmailToSend(c).inbox_id
                   IN  /\ Len(results[c]) = idx[c] - 1
                       /\ \A k \in 1..(idx[c] - 1) :
                             /\ results[c][k].queue_id = batch[c][k].id
                             /\ results[c][k].status
                                   \in {"sent", "failed", "rescheduled"}
                             /\ wq[c][batch[c][k].id].status = results[c][k].status
                       /\ current_send_count'[c] =
                             GetCount(s, Date(txn_now[c]))
                                + Cardinality(SentBy(c, s))]_vars

\* C24, its case: a job is about to be rescheduled because a job before it
\* in the same cycle was sent and took the last place of the day, after a
\* job that failed.
C24_Witness ==
    \E c \in Cycles :
       /\ pc[c] = "reschedule"
       /\ current_send_count[c] = daily_limit_per_inbox
       /\ GetCount(EmailToSend(c).inbox_id, Date(txn_now[c])) < daily_limit_per_inbox
       /\ \E k \in 1..(idx[c] - 1) : results[c][k].status = "failed"
       /\ results[c][idx[c] - 1].status = "sent"
       /\ batch[c][idx[c] - 1].row.send_at < EmailToSend(c).send_at

\* C25: sending is only a transient state: when no cycle is in progress no
\* job has status sending, and every job a cycle has claimed (it returned a
\* row for it that does not say rescheduled) is sent or failed when the
\* cycle ends.
C25_SendingIsTransient ==
    [][/\ AllIdle' => \A j \in DOMAIN email_queue' :
                         email_queue'[j].status # "sending"
       /\ \A c \in Cycles :
             (pc[c] = "commit" /\ pc'[c] = "idle")
                => \A k \in DOMAIN results[c] :
                      results[c][k].status # "rescheduled"
                         => email_queue'[results[c][k].queue_id].status
                               \in {"sent", "failed"}]_vars

\* C25, its case: no cycle is in progress, a cycle that had claimed and
\* mailed a job was aborted, and a later cycle has claimed the job again and
\* ended.
C25_Witness ==
    /\ AllIdle
    /\ \E j \in DOMAIN email_queue :
          /\ posted[j] = 2
          /\ email_queue[j].status \in {"sent", "failed"}

\* C26: a failure of the counter upsert after the request returned is a
\* send failure of that job: the job is not left as sent, it ends failed
\* with a non-empty error_message, a failed row is returned for it, and the
\* counter is not changed for it (it grows by the jobs returned as sent).
C26_UpsertFailureFailsJob ==
    [][\A c \in Cycles :
          /\ (pc[c] = "upsert" /\ pc'[c] = "handler")
                => /\ wc'[c] = wc[c]
                   /\ wq'[c][Job(c)].status # "sent"
          /\ (pc[c] = "handler" /\ pc'[c] # "handler"
                 /\ error_message[c] = UpsertError)
                => /\ wq'[c][Job(c)].status = "failed"
                   /\ wq'[c][Job(c)].error_message \notin {NULL, ""}
                   /\ wc'[c] = wc[c]
                   /\ results'[c][Len(results'[c])].status = "failed"
          /\ (pc[c] = "commit" /\ pc'[c] = "idle")
                => /\ \A k \in DOMAIN results[c] :
                         results[c][k].message =
                            "Failed to send email: " \o UpsertError
                         => LET row == email_queue'[results[c][k].queue_id]
                            IN  /\ row.status = "failed"
                                /\ row.error_message \notin {NULL, ""}
                   /\ \A s \in Inboxes :
                         LET key == <<s, Date(txn_now[c])>>
                             n == Cardinality(SentBy(c, s))
                         IN  IF key \in DOMAIN inbox_daily_send_counts'
                             THEN inbox_daily_send_counts'[key] =
                                     GetCount(s, Date(txn_now[c])) + n
                             ELSE n = 0]_vars

\* C26, its case: a cycle has ended in which the request of a job was
\* answered and its upsert failed, while another job of the cycle was sent
\* and counted.
C26_Witness ==
    \E c \in Cycles :
       /\ pc[c] = "idle"
       /\ \E k \in DOMAIN results[c] : \E m \in DOMAIN results[c] :
             /\ results[c][k].message = "Failed to send email: " \o UpsertError
             /\ last_response[results[c][k].queue_id] # 0
             /\ email_queue[results[c][k].queue_id].status = "failed"
             /\ results[c][m].status = "sent"
             /\ GetCount(1, Date(Now0)) \in {1, daily_limit_per_inbox}

\* The columns of a job that a cycle never writes.
FrameColumns ==
    {"user_id", "campaign_id", "contact_id", "inbox_id", "sequence_id",
     "email_step_id", "subject", "body"}

\* C27: the frame of a cycle: the queue changes only when a cycle commits;
\* the jobs the cycle did not select are left as they were; of a selected
\* job only status, error_message, updated_at and send_at change, send_at
\* only when the job is rescheduled and then by exactly 24 hours.
C27_CycleFrame ==
    [][/\ (\A c \in Cycles : ~(pc[c] = "commit" /\ pc'[c] = "idle"))
             => email_queue' = email_queue
       /\ \A c \in Cycles :
             (pc[c] = "commit" /\ pc'[c] = "idle")
                => /\ DOMAIN email_queue' = DOMAIN email_queue
                   /\ \A j \in DOMAIN email_queue \ BatchIds(c) :
                         email_queue'[j] = email_queue[j]
                   /\ \A k \in DOMAIN batch[c] :
                         LET j == batch[c][k].id
                         IN  /\ \A f \in FrameColumns :
                                   email_queue'[j][f] = email_queue[j][f]
                             /\ email_queue'[j].send_at =
                                   IF results[c][k].status = "rescheduled"
                                   THEN email_queue[j].send_at + 24 * 3600
                                   ELSE email_queue[j].send_at]_vars

\* C27, its case: a cycle has ended that sent, failed and rescheduled jobs
\* of a full batch, while the queue holds jobs handled earlier, a due job
\* left beyond the batch and a job not due yet.
C27_Witness ==
    \E c \in Cycles :
       /\ pc[c] = "idle"
       /\ Len(results[c]) = batch_size
       /\ {results[c][k].status : k \in DOMAIN results[c]}
             = {"sent", "failed", "rescheduled"}
       /\ \A k \in DOMAIN results[c] :
             LET row == email_queue[results[c][k].queue_id]
             IN  /\ row.status = results[c][k].status
                 /\ row.status = "rescheduled" => row.send_at > now
       /\ \E j \in DOMAIN email_queue :
             email_queue[j].status = "queued" /\ email_queue[j].send_at <= now
       /\ \E j \in DOMAIN email_queue :
             email_queue[j].status = "queued" /\ email_queue[j].send_at > now
       /\ \E j \in DOMAIN email_queue :
             email_queue[j].status = "sent" /\ email_queue[j].updated_at < now

\* The number of jobs that had been handled before the BatchJobs jobs of the
\* scenario were queued; these have the ids after them.
HandledBefore == Cardinality(DOMAIN email_queue) - BatchJobs

\* C28: no starvation: when cycles keep being started and each runs to its
\* end, every job that is queued with send_at <= now eventually leaves
\* queued (it is sent, failed or rescheduled), also when more than
\* batch_size jobs are due.
C28_NoStarvation ==
    \A k \in 1..BatchJobs :
       (/\ email_queue[HandledBefore + k].status = "queued"
        /\ email_queue[HandledBefore + k].send_at <= now)
       ~> (email_queue[HandledBefore + k].status
              \in {"sent", "failed", "rescheduled"})

\* C28, its case: more jobs were due than a batch holds, and the last of
\* them has been handled by a second cycle.
C28_Witness ==
    /\ AllIdle
    /\ Cardinality({j \in DOMAIN email_queue :
                       /\ email_queue[j].updated_at = now
                       /\ email_queue[j].status \in {"sent", "failed", "rescheduled"}})
          > batch_size
    /\ Due(now) = {}

\* C29: the worker never attempts delivery with an access token it knows
\* to be expired: when the expiry check finds the stored token expired and
\* a refresh token exists, the refresh comes before the send and the send
\* uses the token just issued, also when the update of the inbox fails;
\* with no refresh token, or when the refresh fails, no delivery is
\* attempted and the response is 500.
C29_NoSendWithExpiredToken ==
    [][/\ (w_pc = "expiry" /\ w_pc' # "expiry" /\ now > w_inbox.expires_at)
             => IF Falsy(w_inbox.refresh_token)
                THEN w_pc' = "idle" /\ response'.status = 500 /\ gmail' = gmail
                ELSE w_pc' = "refresh" /\ gmail' = gmail
       /\ (w_pc = "refresh" /\ w_pc' = "idle")
             => response'.status = 500 /\ gmail' = gmail
       /\ (w_pc = "update" /\ w_pc' # "update")
             => w_pc' = "send" /\ access_token' = NewToken(issued)
       /\ gmail' # gmail
             => /\ w_pc = "send"
                /\ Len(gmail') = Len(gmail) + 1
                /\ gmail'[Len(gmail')].accessToken =
                      IF checked_at > w_inbox.expires_at
                      THEN NewToken(issued)
                      ELSE w_inbox.access_token
                /\ checked_at > w_inbox.expires_at
                      => /\ ~Falsy(w_inbox.refresh_token)
                         /\ gmail'[Len(gmail')].accessToken
                               # w_inbox.access_token]_vars

\* C29, its case: a mail has gone out with a token issued in the same call,
\* while the inbox still holds the expired token because the update failed.
C29_Witness ==
    /\ w_pc = "idle"
    /\ response.status = 200
    /\ checked_at > w_inbox.expires_at
    /\ gmail # << >>
    /\ gmail[Len(gmail)].accessToken = NewToken(issued)
    /\ inboxes[w_req.inbox_id].access_token = w_inbox.access_token
    /\ inboxes[w_req.inbox_id].expires_at < checked_at

\* The calls of fn that failed.
Failed(calls_) == {i \in DOMAIN calls_ : calls_[i] # "ok"}

\* C30: retryWithBackoff calls fn at most maxRetries + 1 times and always
\* ends: it returns the result of the first call that succeeds and calls fn
\* no more; when every call fails it throws the error of the last call;
\* onRetry is called once after each failed call but the last of
\* maxRetries + 1, with the attempt numbers 1, 2, ... in order.
C30_RetryWithBackoff ==
    /\ [][/\ Len(fn_calls') <= maxRetries' + 1
          /\ rb_pc = "done" => UNCHANGED retryVars
          /\ (rb_pc # "done" /\ rb_pc' = "done")
                => LET n == Len(fn_calls')
                   IN  /\ \A i \in 1..(n - 1) : fn_calls'[i] \in Errors
                       /\ IF outcome'.kind = "returned"
                          THEN /\ fn_calls'[n] = "ok"
                               /\ outcome'.value = FnResult(n)
                          ELSE /\ outcome'.kind = "thrown"
                               /\ n = maxRetries + 1
                               /\ fn_calls'[n] \in Errors
                               /\ outcome'.value = fn_calls'[n]
                       /\ onRetry_calls' =
                             IF onRetry
                             THEN [i \in Failed(fn_calls') \cap 1..maxRetries |->
                                      <<i, fn_calls'[i]>>]
                             ELSE << >>]_vars
    /\ (rb_pc # "idle") ~> (rb_pc = "done")

\* C30, its case: every one of maxRetries + 1 > 2 calls failed, with
\* different errors, the last error was thrown and onRetry was called
\* maxRetries times.
C30_Witness ==
    /\ rb_pc = "done"
    /\ outcome.kind = "thrown"
    /\ maxRetries > 1
    /\ Len(fn_calls) = maxRetries + 1
    /\ Len(onRetry_calls) = maxRetries
    /\ fn_calls[1] # fn_calls[Len(fn_calls)]
    /\ outcome.value = fn_calls[Len(fn_calls)]

====
